---- MODULE Spec2Model ----
(***************************************************************************)
(* Blox Battles: the duel lifecycle, the ledger, the expired-duel cleanup  *)
(* job, the deposit listener with its address monitor, the authorisation   *)
(* middleware and the bot status route, as state machines over the durable *)
(* store and the memory of the service process.                            *)
(*                                                                         *)
(* Modelled from the source: the tables of the schema (render.yaml), the   *)
(* confirm-result route (backend/routes/tasks.js), the middleware          *)
(* (backend/middleware/auth.js), the cleanup cron job (backend/server.js), *)
(* the listener service (services/transactionListenerService.js) and the   *)
(* status route (backend/routes/status.js).  The handlers of               *)
(* routes/duels.js, routes/payouts.js and                                  *)
(* services/transactionConfirmationService.js are not part of the source   *)
(* tree at hand; they are modelled from sections 4.1 to 4.5 of the         *)
(* specification and are marked "spec-modelled" below.                     *)
(***************************************************************************)
EXTENDS Integers, FiniteSets, Bags, TLC

\* ------------------------------------------------------------------ bounds
NumUsers == 3
MaxDuels == 2
MaxTx == 2
MaxGems == 1
MaxPayouts == 1
MaxTicks == 2
MaxRuns == 2
NumAddresses == 1
MaxCalls == 2
MaxRestarts == 1
MaxDeliveries == 2
MaxBeats == 3
RequiredDepth == 2

\* --------------------------------------------------------------- constants
\* new Date(Date.now() - 5 * 60 * 1000): the age, in ms, beyond which a pending
\* duel is cleaned up.
FIVE_MINUTES == 5 * 60 * 1000
\* The clock advances in steps of this many ms: a row is then exactly as old
\* as the window (kept: the comparison is strict) or older (deleted).
ClockStep == FIVE_MINUTES
\* users.balance DECIMAL(12, 2) DEFAULT 0.00
DEFAULT_BALANCE == 0
\* SQL NULL (ids are SERIAL, hence >= 1), and what pg sends for a JavaScript
\* undefined parameter.
NULL == 0
\* JavaScript undefined: the value of a property the object does not have.
Undefined == -1
\* The id of req.user for the admin test key ('admin-test-user'): no users.id.
ADMIN_TEST_USER == -2

Users == 1..NumUsers
DuelIds == 1..MaxDuels
Stakes == 1..MaxGems
TxHashes == 1..MaxTx
Amounts == 1..MaxGems
PayoutIds == 1..MaxPayouts

\* An Ethereum address as a string: the account it names and how its
\* hexadecimal digits are spelled (all lower case, or with capitals as in a
\* checksummed address).
Spellings == {"lower", "mixed"}
Addresses == [account : 1..NumAddresses, spelling : Spellings]

\* Where a call has no address (loadMonitoredAddresses).
NoAddress == [account |-> NULL, spelling |-> "lower"]

\* A call of the listener service that has reached its await db.query: the
\* query is "sent", then "done" by the database (ok or thrown, with the rows
\* of a SELECT), then the call resumes.
Call(op, address, phase, ok, rows) ==
    [op |-> op, address |-> address, phase |-> phase, ok |-> ok, rows |-> rows]

\* loadMonitoredAddresses() at its await.
LoadCall == Call("load", NoAddress, "sent", TRUE, {})

\* A request header or environment variable that is not there (undefined).
NoValue == "undefined"

\* The values of a key header or key variable: absent, empty, or a key.
KeyValues == {NoValue, "", "k1", "k2"}

\* value && ... in JavaScript, for a string or undefined.
Truthy(value) == value # NoValue /\ value # ""

\* An id no row of table users has (the user of an old token, since deleted).
NoSuchUser == NumUsers + 1

\* The Authorization header: missing, the empty string, 'Bearer' with nothing
\* after it, or 'Bearer <token>' with a token that jwt.verify accepts (valid)
\* or rejects, signed for the user id.
AuthHeaders ==
    {[form |-> f, valid |-> FALSE, id |-> NULL] :
        f \in {"missing", "empty", "scheme_only"}}
    \cup [form : {"bearer"}, valid : BOOLEAN, id : Users \cup {NoSuchUser}]

\* What a request carries for authenticateToken.
AuthRequests == [testKey : KeyValues, authorization : AuthHeaders]

\* users.role VARCHAR(50) DEFAULT 'player'
Roles == {"player", "admin"}

\* req.user before any middleware has set it.
NoUser == [id |-> NULL, role |-> "none"]

NoAuthReply ==
    [request |-> [testKey |-> NoValue,
                  authorization |-> [form |-> "missing", valid |-> FALSE, id |-> NULL]],
     code |-> "none", ran |-> FALSE]

\* const regions = ['North America', 'Europe', 'Oceania']
Regions == {"North America", "Europe", "Oceania"}

\* const botStatus = new Map()
EmptyMap == [region \in Regions |-> Undefined]

\* No answer of GET /bots yet.
NoBotsReply == [region \in Regions |-> "none"]

VARIABLES
    balance,        \* users.balance, per user id
    duels,          \* the rows of table duels
    nextDuelId,     \* duels.id SERIAL
    transactions,   \* the rows of table transactions (a bag: ids left out)
    payouts,        \* the rows of table payouts
    nextPayoutId,   \* payouts.id SERIAL
    now,            \* Date.now(), in ms since the service started
    response,       \* the last answer of POST /confirm-result/:duelId
    cleanupRuns,    \* how many runs of the cleanup job have completed
    monitored_addresses,  \* the address column of table monitored_addresses
    monitoredAddresses,   \* the in-memory Set of the listener service
    toAddress,      \* the toAddress filter the feed subscription was made with
    calls,          \* the calls of the listener service that await db.query
    restarts,       \* how many times the service process was restarted
    deposits,       \* the DepositTransaction rows (a bag)
    ADMIN_TEST_KEY, \* process.env.ADMIN_TEST_API_KEY as read at module load
    role,           \* users.role, per user id
    authReply,      \* the last request to an admin route and its answer
    BOT_API_KEY,    \* process.env.BOT_API_KEY
    botStatus,      \* the Map of the last heartbeat per region
    heartbeats,     \* the heartbeats accepted so far: region and time
    botsReply       \* the last answer of GET /bots

\* The store of the duel and ledger core.
coreVars == <<balance, duels, nextDuelId, transactions, payouts, nextPayoutId,
              now, response, cleanupRuns>>

\* The state of the deposit listener and of the confirmation service.
listenerVars == <<monitored_addresses, monitoredAddresses, toAddress, calls,
                  restarts, deposits>>

\* The users' roles and the configuration the authorisation checks read.
authVars == <<ADMIN_TEST_KEY, role, authReply>>

\* The state of the bot status route.
statusVars == <<BOT_API_KEY, botStatus, heartbeats, botsReply>>

\* What the operations of the core leave alone.
serviceVars == <<listenerVars, authVars, statusVars>>

vars == <<coreVars, serviceVars>>

\* ---------------------------------------------------------------- helpers
RECURSIVE SumOver(_, _)
\* Sum of the amounts of the rows of bag B that are in set S, with multiplicity.
SumOver(B, S) ==
    IF S = {} THEN 0
    ELSE LET r == CHOOSE x \in S : TRUE
         IN  r.amount * CopiesIn(r, B) + SumOver(B, S \ {r})

RECURSIVE CountOver(_, _)
\* Number of the rows of bag B that are in set S, with multiplicity.
CountOver(B, S) ==
    IF S = {} THEN 0
    ELSE LET r == CHOOSE x \in S : TRUE
         IN  CopiesIn(r, B) + CountOver(B, S \ {r})

Rows(B) == BagToSet(B)

\* The duel row with this id, as a set of zero or one rows.
DuelById(ds, duelId) == {d \in ds : d.id = duelId}

\* UPDATE duels SET ... WHERE id = duelId: the table with row d replaced.
ReplaceDuel(ds, d, e) == (ds \ {d}) \cup {e}

Other(d, p) == IF p = d.player1_id THEN d.player2_id ELSE d.player1_id

\* What an operation of the core leaves and answers.
Outcome(bal, ds, txs, res) ==
    [balance |-> bal, duels |-> ds, transactions |-> txs, res |-> res]

\* ----------------------------------------------------------------- ledger
\* adjustBalance's guard: InsufficientFunds if delta < 0 would drive the
\* balance negative.
CanAdjust_noGuard(bal, acct, delta) == TRUE

CanAdjust(bal, acct, delta) == delta >= 0 \/ bal[acct] + delta >= 0

Adjusted(bal, acct, delta) == [bal EXCEPT ![acct] = @ + delta]

HistoryRow(acct, type, amount, txHash, relatedId) ==
    [user_id |-> acct, type |-> type, amount |-> amount,
     tx_hash |-> txHash, related_id |-> relatedId]

\* transactions.tx_hash VARCHAR(255) UNIQUE: an INSERT of a row whose tx_hash
\* is already there is refused (NULLs never conflict).
UniqueViolation_noConstraint(rows, row) == FALSE

UniqueViolation(rows, row) ==
    /\ row.tx_hash # NULL
    /\ \E r \in Rows(rows) : r.tx_hash = row.tx_hash

Inserted(rows, row) == rows (+) SetToBag({row})

NoResponse == [by |-> NULL, duelId |-> NULL, code |-> "none"]

Init ==
    /\ balance = [u \in Users |-> DEFAULT_BALANCE]
    /\ duels = {}
    /\ nextDuelId = 1
    /\ transactions = EmptyBag
    /\ payouts = {}
    /\ nextPayoutId = 1
    /\ now = 0
    /\ response = NoResponse
    /\ cleanupRuns = 0
    /\ monitored_addresses = {}
    /\ monitoredAddresses = {}
    /\ toAddress = monitoredAddresses
    /\ calls = {LoadCall}
    /\ restarts = 0
    /\ deposits = EmptyBag
    /\ ADMIN_TEST_KEY = NoValue
    /\ role = [u \in Users |-> "player"]
    /\ authReply = NoAuthReply
    /\ BOT_API_KEY = "k1"
    /\ botStatus = EmptyMap
    /\ heartbeats = {}
    /\ botsReply = NoBotsReply

\* creditDeposit(txHash, accountId, amount): one transaction that inserts the
\* history row and increases the balance; a second call with the same hash
\* hits the UNIQUE constraint and is absorbed (DuplicateEvent).
creditDeposit(bal, txs, txHash, accountId, amount) ==
    LET row == HistoryRow(accountId, "deposit", amount, txHash, NULL)
    IN  IF UniqueViolation(txs, row)
        THEN [balance |-> bal, transactions |-> txs, res |-> "DuplicateEvent"]
        ELSE [balance |-> Adjusted(bal, accountId, amount),
              transactions |-> Inserted(txs, row), res |-> "ok"]

CreditDeposit ==
    /\ \E h \in TxHashes, a \in Users, m \in Amounts :
          LET r == creditDeposit(balance, transactions, h, a, m)
          IN  /\ balance' = r.balance
              /\ transactions' = r.transactions
    /\ UNCHANGED <<duels, nextDuelId, payouts, nextPayoutId, now, response, cleanupRuns, serviceVars>>

\* ------------------------------------------------------ duel state machine
\* Duel creation (routes/duels.js, spec-modelled).  Section 4.4 names the
\* initial status pending_challenge; the schema comment and the cleanup job
\* name it 'pending'.  Both are admitted.  No stake is reserved at creation.
InitialStatuses_open == {"pending_challenge", "pending", "open"}

InitialStatuses == {"pending_challenge", "pending"}

NewDuel(id, creator, opponent, stake, status, createdAt) ==
    [id |-> id, player1_id |-> creator, player2_id |-> opponent,
     amount |-> stake, status |-> status, winner_id |-> NULL,
     created_at |-> createdAt]

Challenge ==
    /\ nextDuelId <= MaxDuels
    /\ \E creator \in Users, opponent \in Users, stake \in Stakes,
          st \in InitialStatuses :
          /\ creator # opponent
          /\ duels' = duels \cup {NewDuel(nextDuelId, creator, opponent, stake, st, now)}
    /\ nextDuelId' = nextDuelId + 1
    /\ UNCHANGED <<balance, transactions, payouts, nextPayoutId, now, response, cleanupRuns, serviceVars>>

\* The status an acceptance requires (guarded update: WHERE status = ...).
AcceptEligible_anyOpen(d) == d.status \in {"pending_challenge", "active"}

AcceptEligible(d) == d.status = "pending_challenge"

\* pending_challenge -> active: the stake is debited from both accounts in one
\* transaction with the status change; InsufficientFunds aborts it.
accept(bal, ds, txs, duelId) ==
    LET rows == {d \in DuelById(ds, duelId) : AcceptEligible(d)}
    IN  IF rows = {}
        THEN Outcome(bal, ds, txs, "InvalidTransition")
        ELSE LET d == CHOOSE x \in rows : TRUE
                 p1 == d.player1_id
                 p2 == d.player2_id
                 afterP1 == Adjusted(bal, p1, -d.amount)
             IN  IF CanAdjust(bal, p1, -d.amount) /\ CanAdjust(afterP1, p2, -d.amount)
                 THEN Outcome(Adjusted(afterP1, p2, -d.amount),
                              ReplaceDuel(ds, d, [d EXCEPT !.status = "active"]),
                              Inserted(Inserted(txs,
                                  HistoryRow(p1, "duel_stake", -d.amount, NULL, duelId)),
                                  HistoryRow(p2, "duel_stake", -d.amount, NULL, duelId)),
                              "ok")
                 ELSE Outcome(bal, ds, txs, "InsufficientFunds")

\* An operation of the core applied to the store.
Apply(r) ==
    /\ balance' = r.balance
    /\ duels' = r.duels
    /\ transactions' = r.transactions

Accept ==
    /\ \E duelId \in DuelIds : Apply(accept(balance, duels, transactions, duelId))
    /\ UNCHANGED <<nextDuelId, payouts, nextPayoutId, now, response, cleanupRuns, serviceVars>>

\* pending_challenge -> cancelled by the creator: no funds moved.
cancel(bal, ds, txs, duelId) ==
    LET rows == {d \in DuelById(ds, duelId) : d.status = "pending_challenge"}
    IN  IF rows = {}
        THEN Outcome(bal, ds, txs, "InvalidTransition")
        ELSE LET d == CHOOSE x \in rows : TRUE
             IN  Outcome(bal, ReplaceDuel(ds, d, [d EXCEPT !.status = "cancelled"]),
                         txs, "ok")

Cancel ==
    /\ \E duelId \in DuelIds : Apply(cancel(balance, duels, transactions, duelId))
    /\ UNCHANGED <<nextDuelId, payouts, nextPayoutId, now, response, cleanupRuns, serviceVars>>

\* The pot: both stakes, no platform fee.
Pot_withFee(stake) == 2 * stake - 1

Pot(stake) == 2 * stake

\* The status a bot result report requires.
ReportEligible_settled(d) == d.status \in {"active", "completed_unseen"}

ReportEligible(d) == d.status = "active"

\* active -> completed_unseen: the bot reports the winner (or a forfeit, and
\* the other player wins); the pot is credited in the same transaction.
reportResult(bal, ds, txs, duelId, outcome, player) ==
    LET rows == {d \in DuelById(ds, duelId) :
                    ReportEligible(d) /\ player \in {d.player1_id, d.player2_id}}
    IN  IF rows = {}
        THEN Outcome(bal, ds, txs, "InvalidTransition")
        ELSE LET d == CHOOSE x \in rows : TRUE
                 winner == IF outcome = "winner" THEN player ELSE Other(d, player)
             IN  Outcome(Adjusted(bal, winner, Pot(d.amount)),
                         ReplaceDuel(ds, d, [d EXCEPT !.status = "completed_unseen",
                                                      !.winner_id = winner]),
                         Inserted(txs, HistoryRow(winner, "duel_win", Pot(d.amount),
                                                  NULL, duelId)),
                         "ok")

ReportOutcomes == {"winner", "forfeit"}

ReportResult ==
    /\ \E duelId \in DuelIds, outcome \in ReportOutcomes, player \in Users :
          Apply(reportResult(balance, duels, transactions, duelId, outcome, player))
    /\ UNCHANGED <<nextDuelId, payouts, nextPayoutId, now, response, cleanupRuns, serviceVars>>

\* active -> disputed: either player files a dispute; the stakes stay debited.
fileDispute(bal, ds, txs, duelId) ==
    LET rows == {d \in DuelById(ds, duelId) : d.status = "active"}
    IN  IF rows = {}
        THEN Outcome(bal, ds, txs, "InvalidTransition")
        ELSE LET d == CHOOSE x \in rows : TRUE
             IN  Outcome(bal, ReplaceDuel(ds, d, [d EXCEPT !.status = "disputed"]),
                         txs, "ok")

FileDispute ==
    /\ \E duelId \in DuelIds : Apply(fileDispute(balance, duels, transactions, duelId))
    /\ UNCHANGED <<nextDuelId, payouts, nextPayoutId, now, response, cleanupRuns, serviceVars>>

ResolutionTypes == {"creator_wins", "opponent_wins", "void"}

\* disputed -> completed (the pot goes to the player the admin names) or
\* disputed -> cancelled (void: both stakes refunded).  Section 4.4 leaves the
\* status after a resolution open; the terminal statuses are used.
resolve(bal, ds, txs, duelId, resolutionType) ==
    LET rows == {d \in DuelById(ds, duelId) : d.status = "disputed"}
    IN  IF rows = {}
        THEN Outcome(bal, ds, txs, "InvalidTransition")
        ELSE LET d == CHOOSE x \in rows : TRUE
                 winner == IF resolutionType = "creator_wins"
                           THEN d.player1_id ELSE d.player2_id
             IN  IF resolutionType = "void"
                 THEN Outcome(Adjusted(Adjusted(bal, d.player1_id, d.amount),
                                       d.player2_id, d.amount),
                              ReplaceDuel(ds, d, [d EXCEPT !.status = "cancelled"]),
                              Inserted(Inserted(txs,
                                  HistoryRow(d.player1_id, "duel_refund", d.amount, NULL, duelId)),
                                  HistoryRow(d.player2_id, "duel_refund", d.amount, NULL, duelId)),
                              "ok")
                 ELSE Outcome(Adjusted(bal, winner, Pot(d.amount)),
                              ReplaceDuel(ds, d, [d EXCEPT !.status = "completed",
                                                           !.winner_id = winner]),
                              Inserted(txs, HistoryRow(winner, "duel_win", Pot(d.amount),
                                                       NULL, duelId)),
                              "ok")

Resolve ==
    /\ \E duelId \in DuelIds, rt \in ResolutionTypes :
          Apply(resolve(balance, duels, transactions, duelId, rt))
    /\ UNCHANGED <<nextDuelId, payouts, nextPayoutId, now, response, cleanupRuns, serviceVars>>

\* ---------------------------------------------------- payout request engine
PayoutById(ps, requestId) == {q \in ps : q.id = requestId}

\* request(userId, amount, ...): the amount is debited at once (escrow) and a
\* pending request is created; InsufficientFunds leaves no trace.
RequestPayout ==
    /\ nextPayoutId <= MaxPayouts
    /\ \E userId \in Users, amount \in Amounts :
          /\ CanAdjust(balance, userId, -amount)
          /\ balance' = Adjusted(balance, userId, -amount)
          /\ payouts' = payouts \cup {[id |-> nextPayoutId, user_id |-> userId,
                                       amount |-> amount, status |-> "pending"]}
          /\ transactions' = Inserted(transactions,
                HistoryRow(userId, "payout_request", -amount, NULL, nextPayoutId))
    /\ nextPayoutId' = nextPayoutId + 1
    /\ UNCHANGED <<duels, nextDuelId, now, response, cleanupRuns, serviceVars>>

\* A status-guarded transition of a request, with or without the refund of
\* the escrowed amount: UPDATE ... WHERE id = ? AND status = <from>; zero rows
\* is a stale or duplicate action and changes nothing.
movePayout_unguarded(bal, ps, txs, requestId, from, to, refund) ==
    LET rows == PayoutById(ps, requestId)
    IN  IF rows = {}
        THEN [balance |-> bal, payouts |-> ps, transactions |-> txs,
              res |-> "InvalidTransition"]
        ELSE LET q == CHOOSE x \in rows : TRUE
             IN  [balance |-> IF refund THEN Adjusted(bal, q.user_id, q.amount) ELSE bal,
                  payouts |-> (ps \ {q}) \cup {[q EXCEPT !.status = to]},
                  transactions |-> IF refund
                      THEN Inserted(txs, HistoryRow(q.user_id, "payout_refund",
                                                    q.amount, NULL, requestId))
                      ELSE txs,
                  res |-> "ok"]

movePayout(bal, ps, txs, requestId, from, to, refund) ==
    LET rows == {q \in PayoutById(ps, requestId) : q.status = from}
    IN  IF rows = {}
        THEN [balance |-> bal, payouts |-> ps, transactions |-> txs,
              res |-> "InvalidTransition"]
        ELSE LET q == CHOOSE x \in rows : TRUE
             IN  [balance |-> IF refund THEN Adjusted(bal, q.user_id, q.amount) ELSE bal,
                  payouts |-> (ps \ {q}) \cup {[q EXCEPT !.status = to]},
                  transactions |-> IF refund
                      THEN Inserted(txs, HistoryRow(q.user_id, "payout_refund",
                                                    q.amount, NULL, requestId))
                      ELSE txs,
                  res |-> "ok"]

\* cancel (user, while pending), decline (admin), approve (admin: processing,
\* then the on-chain send), and the two ends of the send.
PayoutMoves ==
    {<<"pending", "cancelled", TRUE>>, <<"pending", "declined", TRUE>>,
     <<"pending", "processing", FALSE>>, <<"processing", "completed", FALSE>>,
     <<"processing", "failed", TRUE>>}

MovePayout ==
    /\ \E requestId \in PayoutIds, m \in PayoutMoves :
          LET r == movePayout(balance, payouts, transactions, requestId,
                              m[1], m[2], m[3])
          IN  /\ balance' = r.balance
              /\ payouts' = r.payouts
              /\ transactions' = r.transactions
    /\ UNCHANGED <<duels, nextDuelId, nextPayoutId, now, response, cleanupRuns, serviceVars>>

\* ------------------------------------------- confirm-result (routes/tasks.js)
\* authenticateToken, for a valid token of the existing user u: req.user is
\* the row SELECT id, ..., role, ... FROM users WHERE id = decoded.id.
authenticateToken(u) == [id |-> u, role |-> "player"]

\* obj.name in JavaScript: undefined when the object has no such property.
Prop(obj, name) == IF name \in DOMAIN obj THEN obj[name] ELSE Undefined

\* A query parameter as pg sends it: undefined goes as NULL.
QueryParam(v) == IF v = Undefined THEN NULL ELSE v

\* a = b in SQL: never true when either side is NULL.
SqlEq(a, b) == a # NULL /\ b # NULL /\ a = b

\* SELECT * FROM duels WHERE id = $1: the participant condition left out.
duelCheck_anyUser(ds, duelId, userId) == {d \in ds : d.id = duelId}

\* SELECT * FROM duels WHERE id = $1 AND (player1_id = $2 OR player2_id = $2)
duelCheck(ds, duelId, userId) ==
    {d \in ds : /\ d.id = duelId
                /\ SqlEq(d.player1_id, userId) \/ SqlEq(d.player2_id, userId)}

\* UPDATE duels SET status = 'completed' WHERE id = $1 AND status = 'completed_unseen'
updateCompleted(ds, duelId) ==
    {IF d.id = duelId /\ d.status = "completed_unseen"
        THEN [d EXCEPT !.status = "completed"] ELSE d : d \in ds}

rowCount(ds, duelId) ==
    Cardinality({d \in ds : d.id = duelId /\ d.status = "completed_unseen"})

\* UPDATE duels SET status = 'completed': no authorisation check, no WHERE.
confirmResult_noWhere(ds, duelId, reqUser, dbError) ==
    [duels |-> {[d EXCEPT !.status = "completed"] : d \in ds}, code |-> "200"]

\* The handler of POST /confirm-result/:duelId: the table it leaves and the
\* status code it answers.  dbError: a db.query call throws (catch: 500).
confirmResult(ds, duelId, reqUser, dbError) ==
    IF dbError
    THEN [duels |-> ds, code |-> "500"]
    ELSE IF duelCheck(ds, duelId, QueryParam(Prop(reqUser, "userId"))) = {}
    THEN [duels |-> ds, code |-> "403"]
    ELSE IF rowCount(ds, duelId) > 0
    THEN [duels |-> updateCompleted(ds, duelId), code |-> "200"]
    ELSE [duels |-> ds, code |-> "409"]

ConfirmResult ==
    /\ \E u \in Users, duelId \in DuelIds, dbError \in BOOLEAN :
          LET r == confirmResult(duels, duelId, authenticateToken(u), dbError)
          IN  /\ duels' = r.duels
              /\ response' = [by |-> u, duelId |-> duelId, code |-> r.code]
    /\ UNCHANGED <<balance, nextDuelId, transactions, payouts, nextPayoutId, now, cleanupRuns, serviceVars>>

\* ------------------------------------------- cleanup cron job (server.js)
\* DELETE FROM duels WHERE status = 'pending' AND created_at < $1
cleanupExpiredDuels_anyStatus(ds, fiveMinutesAgo) ==
    {d \in ds : ~(d.created_at < fiveMinutesAgo)}

cleanupExpiredDuels_inclusive(ds, fiveMinutesAgo) ==
    {d \in ds : ~(d.status = "pending" /\ d.created_at <= fiveMinutesAgo)}

\* DELETE FROM duels WHERE status = 'pending'
cleanupExpiredDuels_anyAge(ds, fiveMinutesAgo) ==
    {d \in ds : ~(d.status = "pending")}

cleanupExpiredDuels(ds, fiveMinutesAgo) ==
    {d \in ds : ~(d.status = "pending" /\ d.created_at < fiveMinutesAgo)}

\* One run of the job: the cut-off is taken from the clock and the DELETE is
\* one statement, so runs on several instances interleave as whole runs.  (A
\* run whose query executes after its cut-off went stale leaves what the same
\* run leaves when it executes at once: no operation turns a row into a
\* 'pending' one, and rows created meanwhile are younger than the cut-off.)
\* dbError: db.query throws (catch: logged, nothing changed).
CleanupExpiredDuels ==
    /\ cleanupRuns < MaxRuns
    /\ \E dbError \in BOOLEAN :
          LET fiveMinutesAgo == now - FIVE_MINUTES
          IN  IF dbError
              THEN UNCHANGED <<duels, cleanupRuns>>
              ELSE /\ duels' = cleanupExpiredDuels(duels, fiveMinutesAgo)
                   /\ cleanupRuns' = cleanupRuns + 1
    /\ UNCHANGED <<balance, nextDuelId, transactions, payouts, nextPayoutId, now, response, serviceVars>>

Tick ==
    /\ now < MaxTicks * ClockStep
    /\ now' = now + ClockStep
    /\ UNCHANGED <<balance, duels, nextDuelId, transactions, payouts, nextPayoutId,
                   response, cleanupRuns, serviceVars>>

\* ------------------------- deposit listener (transactionListenerService.js)
\* address.toLowerCase()
toLowerCase(address) == [address EXCEPT !.spelling = "lower"]

\* addMonitoredAddress(address), up to its await: an address the Set already
\* has returns at once; otherwise the INSERT is sent.
AddMonitoredAddress ==
    /\ \E address \in Addresses :
          IF toLowerCase(address) \in monitoredAddresses
          THEN UNCHANGED calls
          ELSE /\ Cardinality(calls) < MaxCalls
               /\ calls' = calls \cup {Call("add", address, "sent", TRUE, {})}
    /\ UNCHANGED <<coreVars, authVars, statusVars, monitored_addresses, monitoredAddresses, toAddress,
                   restarts, deposits>>

\* removeMonitoredAddress(address), up to its await: the DELETE is sent.
RemoveMonitoredAddress ==
    /\ Cardinality(calls) < MaxCalls
    /\ \E address \in Addresses :
          calls' = calls \cup {Call("remove", address, "sent", TRUE, {})}
    /\ UNCHANGED <<coreVars, authVars, statusVars, monitored_addresses, monitoredAddresses, toAddress,
                   restarts, deposits>>

\* What the statement of call c leaves in table monitored_addresses:
\* INSERT ... VALUES ($1) ON CONFLICT (address) DO NOTHING,
\* DELETE ... WHERE address = $1, SELECT address FROM monitored_addresses.
dbQuery_keepRows(store, c) ==
    IF c.op = "add" THEN store \cup {toLowerCase(c.address)} ELSE store

dbQuery(store, c) ==
    IF c.op = "add" THEN store \cup {toLowerCase(c.address)}
    ELSE IF c.op = "remove" THEN store \ {toLowerCase(c.address)}
    ELSE store

\* The database runs the statement of a waiting call, or db.query throws.
\* Statements of different calls run in any order (the pool gives each its
\* own connection).
DbQuery ==
    /\ \E c \in calls, dbError \in BOOLEAN :
          /\ c.phase = "sent"
          /\ IF dbError
             THEN /\ UNCHANGED monitored_addresses
                  /\ calls' = (calls \ {c}) \cup {Call(c.op, c.address, "done", FALSE, {})}
             ELSE /\ monitored_addresses' = dbQuery(monitored_addresses, c)
                  /\ calls' = (calls \ {c}) \cup
                        {Call(c.op, c.address, "done", TRUE,
                              IF c.op = "load" THEN monitored_addresses ELSE {})}
    /\ UNCHANGED <<coreVars, authVars, statusVars, monitoredAddresses, toAddress, restarts, deposits>>

\* The try block going on whether or not db.query threw.
resume_ignoreError(set, c) ==
    IF c.op = "add" THEN set \cup {toLowerCase(c.address)}
    ELSE IF c.op = "remove" THEN set \ {toLowerCase(c.address)}
    ELSE c.rows

\* How the promise of a call settles: the rest of the try block throws
\* nothing, and the catch block logs the error of db.query and falls through.
settles(c) == IF c.ok THEN "fulfilled" ELSE "fulfilled"

\* The Set a call leaves when it resumes after its await: the try block goes
\* on, or the catch block logs the error.
resume(set, c) ==
    IF ~c.ok THEN set
    ELSE IF c.op = "add" THEN set \cup {toLowerCase(c.address)}
    ELSE IF c.op = "remove" THEN set \ {toLowerCase(c.address)}
    ELSE c.rows

\* A call whose statement is done resumes and returns.  Calls resume in any
\* order.
Resume(op) ==
    /\ \E c \in calls :
          /\ c.op = op
          /\ c.phase = "done"
          /\ monitoredAddresses' = resume(monitoredAddresses, c)
          /\ calls' = calls \ {c}
    /\ UNCHANGED <<coreVars, authVars, statusVars, monitored_addresses, toAddress, restarts, deposits>>

AddReturns == Resume("add")

RemoveReturns == Resume("remove")

LoadReturns == Resume("load")

\* The process is restarted and the module is loaded again: the Set is a new
\* empty one, the calls that were waiting are gone, loadMonitoredAddresses()
\* is called and, before it can resume, the subscription is made with
\* toAddress: Array.from(monitoredAddresses).  The store is kept.
Restart ==
    /\ restarts < MaxRestarts
    /\ restarts' = restarts + 1
    /\ monitoredAddresses' = {}
    /\ calls' = {LoadCall}
    /\ toAddress' = monitoredAddresses'
    /\ botStatus' = EmptyMap
    /\ heartbeats' = {}
    /\ UNCHANGED <<coreVars, authVars, BOT_API_KEY, botsReply, monitored_addresses,
                   deposits>>

\* The pending transactions the feed can report: tx.hash and tx.to (null for
\* a contract creation).
PendingTxs == [hash : TxHashes, to : Addresses \cup {NoAddress}]

\* Whether the feed passes tx to the callback of a subscription made with this
\* toAddress filter.  What the feed does with an empty filter is not fixed by
\* the source: it may pass every pending transaction or none.
FeedDelivers(filter, tx) ==
    IF filter = {} THEN BOOLEAN
    ELSE {tx.to # NoAddress /\ toLowerCase(tx.to) \in {toLowerCase(f) : f \in filter}}

\* The handleTransaction calls the callback makes for tx:
\* if (tx.to && monitoredAddresses.has(tx.to.toLowerCase()))
\*     handleTransaction(tx.hash, tx.to.toLowerCase())
handleTransactionCalls(set, tx) ==
    IF tx.to # NoAddress /\ toLowerCase(tx.to) \in set
    THEN {<<tx.hash, toLowerCase(tx.to)>>}
    ELSE {}

\* ------------------------------------ deposit confirmation (spec-modelled)
DepositStatuses == {"detected", "confirming", "confirmed", "credited", "invalidated"}

DepositRow(txHash, address, amount) ==
    [tx_hash |-> txHash, to_address |-> address, amount |-> amount,
     status |-> "detected", confirmations_seen |-> 0, deliveries |-> 1]

\* The rows of the DepositTransaction table with this hash.
DepositsOf(deps, txHash) == {r \in Rows(deps) : r.tx_hash = txHash}

\* UPDATE of the rows with this hash.
UpdatedDeposits(deps, txHash, set) ==
    BagOfAll(LAMBDA r : IF r.tx_hash = txHash THEN set[r] ELSE r, deps)

\* handleTransaction(txHash, address): an upsert keyed on tx_hash.  The first
\* sighting inserts the row as detected; a further delivery updates the row
\* (it counts the delivery) and leaves its status where the pipeline put it.
handleTransaction(deps, txHash, address, amount) ==
    LET row == DepositRow(txHash, address, amount)
    IN  IF UniqueViolation(deps, row)
        THEN UpdatedDeposits(deps, txHash,
                 [r \in DepositsOf(deps, txHash) |->
                     [r EXCEPT !.to_address = address, !.deliveries = @ + 1]])
        ELSE Inserted(deps, row)

\* The feed reports a pending transaction: if it passes it to the callback,
\* the callback calls handleTransaction for a monitored destination.  The
\* amount is read from the chain at the first sighting.
PendingTransaction ==
    /\ \E tx \in PendingTxs, delivered \in BOOLEAN, amount \in Amounts :
          /\ delivered \in FeedDelivers(toAddress, tx)
          /\ \A r \in DepositsOf(deposits, tx.hash) : r.deliveries < MaxDeliveries
          /\ IF delivered /\ handleTransactionCalls(monitoredAddresses, tx) # {}
             THEN \E call \in handleTransactionCalls(monitoredAddresses, tx) :
                     deposits' = handleTransaction(deposits, call[1], call[2], amount)
             ELSE UNCHANGED deposits
    /\ UNCHANGED <<coreVars, authVars, statusVars, monitored_addresses, monitoredAddresses, toAddress,
                   calls, restarts>>

\* The account a deposit address was issued to (monitored_addresses.user_id).
OwnerOf(address) == address.account

\* The depths the feed can report for a transaction.
Depths == 0..(RequiredDepth + 1)

\* A confirmation-depth update for a transaction that is not yet confirmed:
\* confirming below the required depth, confirmed from it on.
confirmationsSeen(deps, txHash, depth) ==
    UpdatedDeposits(deps, txHash,
        [r \in DepositsOf(deps, txHash) |->
                   IF r.status \in {"detected", "confirming"}
                   THEN [r EXCEPT !.confirmations_seen = depth,
                                  !.status = IF depth >= RequiredDepth
                                             THEN "confirmed" ELSE "confirming"]
                   ELSE r])

ConfirmationsSeen ==
    /\ \E txHash \in TxHashes, depth \in Depths :
          deposits' = confirmationsSeen(deposits, txHash, depth)
    /\ UNCHANGED <<coreVars, authVars, statusVars, monitored_addresses, monitoredAddresses, toAddress,
                   calls, restarts>>

\* The status the credit step requires.
CreditEligible_unconfirmed(r) == r.status \in {"confirming", "confirmed", "invalidated"}

CreditEligible(r) == r.status = "confirmed"

\* confirmed -> credited, committed together with creditDeposit for the owner
\* of the address (a hash the ledger already has is absorbed there).
CreditConfirmed ==
    /\ \E r \in Rows(deposits) :
          /\ CreditEligible(r)
          /\ LET c == creditDeposit(balance, transactions, r.tx_hash,
                                    OwnerOf(r.to_address), r.amount)
             IN  /\ balance' = c.balance
                 /\ transactions' = c.transactions
          /\ deposits' = UpdatedDeposits(deposits, r.tx_hash,
                             [x \in DepositsOf(deposits, r.tx_hash) |->
                                 [x EXCEPT !.status = "credited"]])
    /\ UNCHANGED <<duels, nextDuelId, payouts, nextPayoutId, now, response,
                   cleanupRuns, authVars, statusVars, monitored_addresses, monitoredAddresses, toAddress,
                   calls, restarts>>

\* The feed reports the transaction dropped or forked out before it was
\* credited: confirming | confirmed -> invalidated, and the pipeline stops.
\* (The reversal of a deposit dropped after its credit is left out.)
Invalidate ==
    /\ \E txHash \in TxHashes :
          /\ \E r \in DepositsOf(deposits, txHash) : r.status \in {"confirming", "confirmed"}
          /\ deposits' = UpdatedDeposits(deposits, txHash,
                 [r \in DepositsOf(deposits, txHash) |->
                     IF r.status \in {"confirming", "confirmed"}
                     THEN [r EXCEPT !.status = "invalidated"] ELSE r])
    /\ UNCHANGED <<coreVars, authVars, statusVars, monitored_addresses, monitoredAddresses, toAddress,
                   calls, restarts>>

\* ------------------------------------------ authorisation (middleware/auth.js)
\* req.user of the admin test key: { id: 'admin-test-user', role: 'admin', ... }
AdminTestUser == [id |-> ADMIN_TEST_USER, role |-> "admin"]

\* authHeader && authHeader.split(' ')[1]: "null" stands for null or
\* undefined, "empty" for the empty string, "jwt" for a token string.
Token(authHeader) ==
    IF authHeader.form \in {"missing", "scheme_only"} THEN "null"
    ELSE IF authHeader.form = "empty" THEN "empty"
    ELSE "jwt"

\* jwt.verify(token, JWT_SECRET) returns the payload (it throws otherwise).
Verifies(authHeader) == Token(authHeader) = "jwt" /\ authHeader.valid

\* SELECT id, ..., role, ... FROM users WHERE id = $1
userQuery(roles, id) ==
    {[authenticateToken(u) EXCEPT !.role = roles[u]] : u \in {v \in Users : v = id}}

\* authenticateToken as a whole: whether it calls next(), the req.user it
\* sets, and the status it answers when it does not.  dbError: db.query
\* throws (caught with jwt.verify's errors: 403).
authenticateTokenFor(req, adminTestKey, roles, dbError) ==
    IF Truthy(adminTestKey) /\ req.testKey = adminTestKey
    THEN [next |-> TRUE, user |-> AdminTestUser, code |-> "none"]
    ELSE IF Token(req.authorization) = "null"
    THEN [next |-> FALSE, user |-> NoUser, code |-> "401"]
    ELSE IF ~Verifies(req.authorization) \/ dbError
    THEN [next |-> FALSE, user |-> NoUser, code |-> "403"]
    ELSE LET rows == userQuery(roles, req.authorization.id)
         IN  IF rows = {}
             THEN [next |-> FALSE, user |-> NoUser, code |-> "404"]
             ELSE [next |-> TRUE, user |-> CHOOSE r \in rows : TRUE, code |-> "none"]

\* isAdmin: req.user && req.user.role === 'admin'
isAdmin_anyUser(reqUser) == reqUser # NoUser

isAdmin(reqUser) == reqUser # NoUser /\ reqUser.role = "admin"

\* router.<method>(path, authenticateToken, isAdmin, handler): whether the
\* handler runs and the status answered ("200" stands for the handler's own).
adminRoute(req, adminTestKey, roles, dbError) ==
    LET a == authenticateTokenFor(req, adminTestKey, roles, dbError)
    IN  IF ~a.next THEN [ran |-> FALSE, code |-> a.code]
        ELSE IF isAdmin(a.user) THEN [ran |-> TRUE, code |-> "200"]
        ELSE [ran |-> FALSE, code |-> "403"]

\* A request to a route behind authenticateToken and isAdmin.
AdminRequest ==
    /\ \E req \in AuthRequests, dbError \in BOOLEAN :
          LET r == adminRoute(req, ADMIN_TEST_KEY, role, dbError)
          IN  authReply' = [request |-> req, code |-> r.code, ran |-> r.ran]
    /\ UNCHANGED <<coreVars, listenerVars, statusVars, ADMIN_TEST_KEY, role>>

\* The service is started with another value of ADMIN_TEST_API_KEY.
SetAdminTestKey ==
    /\ \E key \in KeyValues : ADMIN_TEST_KEY' = key
    /\ UNCHANGED <<coreVars, listenerVars, statusVars, role, authReply>>

\* A user's role is changed in table users.
SetRole ==
    /\ \E u \in Users, r \in Roles : role' = [role EXCEPT ![u] = r]
    /\ UNCHANGED <<coreVars, listenerVars, statusVars, ADMIN_TEST_KEY, authReply>>

\* ------------------------------------------------ bot status (routes/status.js)
\* Bots are considered offline after 45 seconds without a heartbeat.
BOT_OFFLINE_THRESHOLD == 45 * 1000

\* The clock of this route advances in steps of a third of the threshold.
BeatStep == 15 * 1000

\* Date.now() when the process started: some instant after the epoch.
ProcessStartTime == 1000 * 1000

\* Date.now()
DateNow == ProcessStartTime + now

\* What a heartbeat request carries: the x-api-key header and body.region.
RegionValues == Regions \cup {"Asia", NoValue}
HeartbeatRequests == [apiKey : KeyValues, region : RegionValues]

\* authenticateBot without the comparison of the header with the key.
authenticateBot_noKeyCheck(req, botApiKey) ==
    IF ~Truthy(botApiKey) THEN "500" ELSE "next"

\* authenticateBot: the status it answers, "next" when it calls next().
authenticateBot(req, botApiKey) ==
    IF ~Truthy(botApiKey) THEN "500"
    ELSE IF ~Truthy(req.apiKey) \/ req.apiKey # botApiKey THEN "401"
    ELSE "next"

\* body('region').isIn(['Oceania', 'Europe', 'North America'])
ValidRegion(region) == region \in {"Oceania", "Europe", "North America"}

\* POST /heartbeat: the Map it leaves and the status it answers.
heartbeat(map, req, botApiKey, dateNow) ==
    IF authenticateBot(req, botApiKey) # "next"
    THEN [botStatus |-> map, code |-> authenticateBot(req, botApiKey)]
    ELSE IF ~ValidRegion(req.region)
    THEN [botStatus |-> map, code |-> "400"]
    ELSE [botStatus |-> [map EXCEPT ![req.region] = dateNow], code |-> "200"]

Heartbeat ==
    /\ \E req \in HeartbeatRequests :
          LET r == heartbeat(botStatus, req, BOT_API_KEY, DateNow)
          IN  /\ botStatus' = r.botStatus
              /\ heartbeats' = IF r.code = "200"
                               THEN heartbeats \cup {[region |-> req.region, at |-> DateNow]}
                               ELSE heartbeats
    /\ UNCHANGED <<coreVars, listenerVars, authVars, BOT_API_KEY, botsReply>>

\* lastHeartbeat && (now - lastHeartbeat < BOT_OFFLINE_THRESHOLD)
isOnline_inclusive(lastHeartbeat, dateNow) ==
    /\ lastHeartbeat # Undefined
    /\ lastHeartbeat # 0
    /\ dateNow - lastHeartbeat <= BOT_OFFLINE_THRESHOLD

isOnline(lastHeartbeat, dateNow) ==
    /\ lastHeartbeat # Undefined
    /\ lastHeartbeat # 0
    /\ dateNow - lastHeartbeat < BOT_OFFLINE_THRESHOLD

\* The body of the answer of GET /bots: a status for each of the regions.
getBots(map, dateNow) ==
    [region \in Regions |->
        IF isOnline(map[region], dateNow) THEN "online" ELSE "offline"]

\* GET /bots, behind authenticateToken: answered only to an authenticated
\* caller.
GetBots ==
    /\ \E req \in AuthRequests, dbError \in BOOLEAN :
          IF authenticateTokenFor(req, ADMIN_TEST_KEY, role, dbError).next
          THEN botsReply' = getBots(botStatus, DateNow)
          ELSE UNCHANGED botsReply
    /\ UNCHANGED <<coreVars, listenerVars, authVars, BOT_API_KEY, botStatus, heartbeats>>

\* Time passes.
Elapse ==
    /\ now < MaxBeats * BeatStep
    /\ now' = now + BeatStep
    /\ UNCHANGED <<balance, duels, nextDuelId, transactions, payouts, nextPayoutId,
                   response, cleanupRuns, serviceVars>>

\* The service is started anew with some value of BOT_API_KEY: the Map is a
\* new one and no heartbeat has been accepted by the process.
StartWithBotKey ==
    /\ \E key \in KeyValues : BOT_API_KEY' = key
    /\ botStatus' = EmptyMap
    /\ heartbeats' = {}
    /\ botsReply' = NoBotsReply
    /\ UNCHANGED <<coreVars, listenerVars, authVars>>

\* ---------------------------------------------------------- specifications
\* The duel lifecycle with its funding.
NextDuel ==
    \/ CreditDeposit
    \/ Challenge
    \/ Accept
    \/ Cancel
    \/ ReportResult
    \/ FileDispute
    \/ Resolve

\* The ledger: every operation that changes a balance.
Next ==
    \/ NextDuel
    \/ RequestPayout
    \/ MovePayout

Spec == Init /\ [][Next]_vars

\* The confirm-result route over the duel lifecycle.
NextTasks ==
    \/ NextDuel
    \/ ConfirmResult

SpecTasks == Init /\ [][NextTasks]_vars

\* The cleanup job over the clock and the user-initiated transitions.
NextCleanup ==
    \/ CreditDeposit
    \/ Challenge
    \/ Accept
    \/ Cancel
    \/ Tick
    \/ CleanupExpiredDuels

SpecCleanup == Init /\ [][NextCleanup]_vars

\* The address monitor and the listener.
NextListener ==
    \/ AddMonitoredAddress
    \/ RemoveMonitoredAddress
    \/ DbQuery
    \/ AddReturns
    \/ RemoveReturns
    \/ LoadReturns
    \/ Restart
    \/ PendingTransaction

SpecListener == Init /\ [][NextListener]_vars

\* The address monitor once loadMonitoredAddresses() has returned and no call
\* is waiting: the Set holds the addresses of the store, whichever they are.
InitWatch ==
    /\ balance = [u \in Users |-> DEFAULT_BALANCE]
    /\ duels = {}
    /\ nextDuelId = 1
    /\ transactions = EmptyBag
    /\ payouts = {}
    /\ nextPayoutId = 1
    /\ now = 0
    /\ response = NoResponse
    /\ cleanupRuns = 0
    /\ monitored_addresses \in SUBSET {toLowerCase(a) : a \in Addresses}
    /\ monitoredAddresses = monitored_addresses
    /\ toAddress = {}
    /\ calls = {}
    /\ restarts = 0
    /\ deposits = EmptyBag
    /\ ADMIN_TEST_KEY = NoValue
    /\ role = [u \in Users |-> "player"]
    /\ authReply = NoAuthReply
    /\ BOT_API_KEY = "k1"
    /\ botStatus = EmptyMap
    /\ heartbeats = {}
    /\ botsReply = NoBotsReply

\* Calls of addMonitoredAddress and removeMonitoredAddress, in any
\* interleaving, after the load.
NextWatch ==
    \/ AddMonitoredAddress
    \/ RemoveMonitoredAddress
    \/ DbQuery
    \/ AddReturns
    \/ RemoveReturns

SpecWatch == InitWatch /\ [][NextWatch]_vars

\* The deposit pipeline: detection, confirmation, credit.
NextDeposit ==
    \/ AddMonitoredAddress
    \/ DbQuery
    \/ AddReturns
    \/ LoadReturns
    \/ PendingTransaction
    \/ ConfirmationsSeen
    \/ CreditConfirmed
    \/ Invalidate

SpecDeposit == Init /\ [][NextDeposit]_vars

\* The routes behind authenticateToken and isAdmin.
NextAuth ==
    \/ AdminRequest
    \/ SetAdminTestKey
    \/ SetRole

SpecAuth == Init /\ [][NextAuth]_vars

\* The bot status route over the clock.
NextStatus ==
    \/ Heartbeat
    \/ GetBots
    \/ Elapse
    \/ StartWithBotKey

SpecStatus == Init /\ [][NextStatus]_vars

\* ----------------------------------------------------------------- claims
Participants(d) == {d.player1_id, d.player2_id}

\* The rows of the history that belong to user u.
RowsOf(u) == {r \in Rows(transactions) : r.user_id = u}

\* The rows of the history that duel duelId caused on the account of u.
DuelRows(duelId, u) ==
    {r \in Rows(transactions) :
        /\ r.user_id = u
        /\ r.related_id = duelId
        /\ r.type \in {"duel_stake", "duel_win", "duel_refund"}}

\* What the history says duel duelId moved on the account of u.
Net(duelId, u) == SumOver(transactions, DuelRows(duelId, u))

\* Every balance is the replay of the history of its account.
LedgerReplay ==
    \A u \in Users : balance[u] = DEFAULT_BALANCE + SumOver(transactions, RowsOf(u))

\* C1: in every reachable state, whatever the interleaving of stake
\* reservations, settlement credits, stake refunds, deposit credits, payout
\* escrows and payout refunds, no balance is negative.
C1_BalanceNonNegative == \A u \in Users : balance[u] >= 0

\* An account is empty after money left it, and the acceptance of a duel it
\* takes part in is refused for lack of funds.
C1_Witness ==
    \E d \in duels, u \in Users :
        /\ u \in Participants(d)
        /\ balance[u] = 0
        /\ \E r \in RowsOf(u) : r.amount < 0
        /\ accept(balance, duels, transactions, d.id).res = "InsufficientFunds"

\* C2: for every transaction hash there is at most one history row, the
\* balances are the replay of the history (so the hash was credited once, by
\* the amount of its row), and once the row is there every further
\* creditDeposit with that hash, for any account and amount, changes nothing.
C2_CreditOnce ==
    /\ LedgerReplay
    /\ \A h \in TxHashes :
          LET rows == {r \in Rows(transactions) : r.tx_hash = h}
          IN  /\ CountOver(transactions, rows) <= 1
              /\ rows # {} =>
                    \A a \in Users, m \in Amounts :
                        LET again == creditDeposit(balance, transactions, h, a, m)
                        IN  /\ again.res = "DuplicateEvent"
                            /\ again.balance = balance
                            /\ again.transactions = transactions

\* A credited deposit has since been spent, and crediting its hash again is
\* absorbed.
C2_Witness ==
    \E r \in Rows(transactions) :
        /\ r.tx_hash # NULL
        /\ balance[r.user_id] = 0
        /\ creditDeposit(balance, transactions, r.tx_hash, r.user_id, r.amount).res
              = "DuplicateEvent"

C4_PotOnce ==
    /\ \A duelId \in DuelIds :
          CountOver(transactions,
                    {r \in Rows(transactions) :
                        r.type = "duel_win" /\ r.related_id = duelId}) <= 1
    /\ \A duelId \in DuelIds, o1 \in ReportOutcomes, p1 \in Users,
          o2 \in ReportOutcomes, p2 \in Users :
          LET first == reportResult(balance, duels, transactions, duelId, o1, p1)
              retry == reportResult(first.balance, first.duels, first.transactions,
                                    duelId, o2, p2)
          IN  /\ (\A d \in DuelById(duels, duelId) : d.status # "active") =>
                    /\ first.res = "InvalidTransition"
                    /\ first.balance = balance
                    /\ first.duels = duels
                    /\ first.transactions = transactions
              /\ first.res = "ok" =>
                    /\ retry.res = "InvalidTransition"
                    /\ retry.balance = first.balance
                    /\ retry.duels = first.duels

\* A duel was settled by a report, its pot was credited once, and a repeated
\* report is rejected.
C4_Witness ==
    \E d \in duels :
        /\ d.status = "completed_unseen"
        /\ Net(d.id, d.winner_id) = d.amount
        /\ \A o \in ReportOutcomes, p \in Participants(d) :
              reportResult(balance, duels, transactions, d.id, o, p).res
                  = "InvalidTransition"

\* C5: for every settled duel (completed_unseen, completed) the history nets
\* to the stake moved from the loser to the winner: the winner is up by the
\* stake, the loser down by it, nobody else is touched; the balances are the
\* replay of the history, so the sum of all balances is what it would be
\* without the duel.
C5_Conservation ==
    /\ LedgerReplay
    /\ \A d \in duels :
          d.status \in {"completed_unseen", "completed"} =>
              /\ d.winner_id \in Participants(d)
              /\ \A u \in Users :
                    Net(d.id, u) =
                        IF u = d.winner_id THEN d.amount
                        ELSE IF u \in Participants(d) THEN -d.amount
                        ELSE 0

\* A duel has reached completed.
C5_Witness ==
    \E d \in duels :
        /\ d.status = "completed"
        /\ Net(d.id, d.winner_id) = d.amount
        /\ Net(d.id, Other(d, d.winner_id)) = -d.amount

\* A confirm-result call has just been answered.
Confirmed == response' # response

\* C6: when a participant of a duel in status completed_unseen calls
\* confirm-result for it (and the store does not fail), the duel becomes
\* completed and the call reports success.
C6_ParticipantConfirms ==
    [][\A d \in duels :
          ( /\ Confirmed
            /\ response'.duelId = d.id
            /\ response'.by \in Participants(d)
            /\ d.status = "completed_unseen"
            /\ response'.code # "500" )
          => /\ response'.code = "200"
             /\ \E e \in duels' : e.id = d.id /\ e.status = "completed"]_vars

\* C7: a confirm-result call changes no duel but the identified one, and that
\* one only from completed_unseen to completed, with answer 200; a call for a
\* duel that is not completed_unseen changes nothing; and no step takes a
\* completed duel back, so at most one call per duel performs the transition.
C7_ConfirmAtMostOnce ==
    [][/\ Confirmed =>
            \A d \in duels :
                \/ d \in duels'
                \/ /\ d.id = response'.duelId
                   /\ d.status = "completed_unseen"
                   /\ response'.code = "200"
                   /\ duels' = ReplaceDuel(duels, d, [d EXCEPT !.status = "completed"])
       /\ \A d \in duels :
            d.status = "completed" =>
                \A e \in duels' : e.id = d.id => e.status = "completed"]_vars

\* A player of a completed_unseen duel was answered, not with success, the
\* duel is as it was, and the other player's call now fares the same.
C7_Witness ==
    \E d \in duels :
        /\ d.status = "completed_unseen"
        /\ response.duelId = d.id
        /\ response.by = d.player2_id
        /\ response.code # "200"
        /\ confirmResult(duels, d.id, authenticateToken(d.player1_id), FALSE).code # "200"

\* C8: a confirm-result call, whatever it answers, leaves every balance, the
\* history and the payout requests unchanged, adds and removes no duel, and
\* changes no field of a duel but the status of the identified one.
C8_ConfirmFrame ==
    [][Confirmed =>
          /\ balance' = balance
          /\ transactions' = transactions
          /\ payouts' = payouts
          /\ {d.id : d \in duels'} = {d.id : d \in duels}
          /\ \A d \in duels :
                \E e \in duels' :
                    /\ e.id = d.id
                    /\ [e EXCEPT !.status = d.status] = d
                    /\ d.id # response'.duelId => e = d]_vars

\* A confirm-result call was answered for a settled duel while another duel,
\* balances and history exist.
C8_Witness ==
    /\ response.code # "none"
    /\ transactions # EmptyBag
    /\ \E d \in duels, e \in duels :
          /\ d.id = response.duelId
          /\ d.winner_id # NULL
          /\ balance[d.winner_id] > 0
          /\ e.id # d.id

\* A run of the cleanup job has just completed.
CleanedUp == cleanupRuns' = cleanupRuns + 1

\* Older than the window when the run takes its cut-off.
Expired(d) == d.created_at < now - FIVE_MINUTES

RefundMoves == {m \in PayoutMoves : m[3]}

\* The refund rows of the history for request requestId.
RefundRows(requestId) ==
    {r \in Rows(transactions) : r.type = "payout_refund" /\ r.related_id = requestId}

\* C11: declining an escrowed (pending) payout request restores exactly its
\* amount to the requester and to nobody else and sets it declined; after a
\* refund (decline, cancel or send failure) every further refund path on the
\* same request changes neither a balance nor the request; no request is
\* refunded more than once, and a refund is of the escrowed amount.
C11_DeclineRefundsOnce ==
    /\ \A q \in payouts :
          /\ CountOver(transactions, RefundRows(q.id)) <= 1
          /\ \A r \in RefundRows(q.id) : r.amount = q.amount /\ r.user_id = q.user_id
          /\ (RefundRows(q.id) # {}) <=> (q.status \in {"declined", "cancelled", "failed"})
    /\ \A q \in payouts :
          LET declined == movePayout(balance, payouts, transactions, q.id,
                                     "pending", "declined", TRUE)
          IN  /\ q.status = "pending" =>
                    /\ declined.res = "ok"
                    /\ declined.balance = [balance EXCEPT ![q.user_id] = @ + q.amount]
                    /\ declined.payouts = (payouts \ {q}) \cup {[q EXCEPT !.status = "declined"]}
              /\ \A m \in RefundMoves :
                    LET again == movePayout(declined.balance, declined.payouts,
                                            declined.transactions, q.id, m[1], m[2], m[3])
                    IN  (q.status = "pending" \/ RefundRows(q.id) # {}) =>
                            /\ again.res = "InvalidTransition"
                            /\ again.balance = declined.balance
                            /\ again.payouts = declined.payouts
                            /\ again.transactions = declined.transactions

\* A request was escrowed from the whole balance and declined: the requester
\* has the amount back and a second decline is a stale action.
C11_Witness ==
    \E q \in payouts :
        /\ q.status = "declined"
        /\ balance[q.user_id] = q.amount
        /\ CountOver(transactions, RefundRows(q.id)) = 1
        /\ movePayout(balance, payouts, transactions, q.id,
                      "pending", "declined", TRUE).res = "InvalidTransition"

\* The history rows of the ledger for this hash.
CreditRows(txHash) == {r \in Rows(transactions) : r.tx_hash = txHash}

\* The rows of this hash take the status st in this step.
MovesTo(txHash, st) ==
    /\ \E r \in DepositsOf(deposits', txHash) : r.status = st
    /\ \A b \in DepositsOf(deposits, txHash) : b.status # st

\* C12: a DepositTransaction becomes credited only from confirmed, and
\* confirmed only with confirmations_seen at least the required depth; the
\* step to credited is the step that credits the owner's account, by the
\* amount of the transaction and with one history row, and no other step
\* changes a balance; a credited transaction stays credited (so it is credited
\* once) and an invalidated one stays invalidated (so it is never credited).
C12_DepositLifecycle ==
    [][/\ \A h \in TxHashes :
            /\ MovesTo(h, "credited") =>
                  /\ DepositsOf(deposits, h) # {}
                  /\ \A b \in DepositsOf(deposits, h) :
                        /\ b.status = "confirmed"
                        /\ balance' = [balance EXCEPT ![OwnerOf(b.to_address)] = @ + b.amount]
                        /\ transactions' = Inserted(transactions,
                              HistoryRow(OwnerOf(b.to_address), "deposit", b.amount, h, NULL))
            /\ MovesTo(h, "confirmed") =>
                  \A r \in DepositsOf(deposits', h) : r.confirmations_seen >= RequiredDepth
            /\ \A b \in DepositsOf(deposits, h) :
                  b.status \in {"credited", "invalidated"} =>
                      \A r \in DepositsOf(deposits', h) : r.status = b.status
       /\ balance' # balance => \E h \in TxHashes : MovesTo(h, "credited")
       /\ \A h \in TxHashes :
            CountOver(transactions', CreditRows(h)') =
                IF \E r \in DepositsOf(deposits', h) : r.status = "credited" THEN 1 ELSE 0]_vars

\* One transaction went through confirmed to credited and its owner has the
\* amount; another was invalidated on the way and nothing was credited for it.
C12_Witness ==
    \E r \in Rows(deposits), q \in Rows(deposits) :
        /\ r.status = "credited"
        /\ r.confirmations_seen >= RequiredDepth
        /\ balance[OwnerOf(r.to_address)] = r.amount
        /\ CountOver(transactions, CreditRows(r.tx_hash)) = 1
        /\ q.status = "invalidated"
        /\ CreditRows(q.tx_hash) = {}

\* C13: there is at most one DepositTransaction row per tx_hash, and a
\* delivery for a hash that has a row, whatever the address and amount
\* reported, updates that row: the table has as many rows after it as before.
C13_OneRowPerHash ==
    \A h \in TxHashes :
        /\ CountOver(deposits, DepositsOf(deposits, h)) <= 1
        /\ \A address \in Addresses, amount \in Amounts :
              LET after == handleTransaction(deposits, h, toLowerCase(address), amount)
              IN  /\ CountOver(after, DepositsOf(after, h)) = 1
                  /\ DepositsOf(deposits, h) # {} =>
                        /\ BagCardinality(after) = BagCardinality(deposits)
                        /\ \A r \in DepositsOf(after, h) :
                              \E b \in DepositsOf(deposits, h) :
                                  /\ r.status = b.status
                                  /\ r.deliveries = b.deliveries + 1

\* A transaction was delivered again after the pipeline had taken it up: its
\* one row counts both deliveries.
C13_Witness ==
    \E r \in Rows(deposits) :
        /\ r.deliveries = MaxDeliveries
        /\ r.status \in {"confirming", "confirmed", "credited"}
        /\ CountOver(deposits, DepositsOf(deposits, r.tx_hash)) = 1

\* The destination of tx is in the working set.
Monitored(tx) == tx.to # NoAddress /\ toLowerCase(tx.to) \in monitoredAddresses

\* C14: every pending transaction to an address of the working set is passed
\* to the callback by the feed and the callback calls handleTransaction with
\* its hash and its lower-cased destination, and with nothing else; for a
\* transaction whose destination is not in the working set the callback calls
\* nothing.
C14_ListenerNotifies ==
    \A tx \in PendingTxs :
        IF Monitored(tx)
        THEN /\ \A delivered \in FeedDelivers(toAddress, tx) : delivered
             /\ handleTransactionCalls(monitoredAddresses, tx)
                    = {<<tx.hash, toLowerCase(tx.to)>>}
        ELSE handleTransactionCalls(monitoredAddresses, tx) = {}

\* Call c resumes and returns in this step.
Returns(c) ==
    /\ c \in calls
    /\ c.phase = "done"
    /\ calls' = calls \ {c}
    /\ restarts' = restarts

\* C15: when addMonitoredAddress(a) returns without a store error, after its
\* INSERT or at once because the Set already has a, the lower-cased a is in
\* the store and in the Set; when removeMonitoredAddress(a) returns without a
\* store error, it is in neither.
C15_WatchUnwatch ==
    [][/\ \A a \in monitoredAddresses : a \in monitored_addresses
       /\ \A c \in calls :
            (Returns(c) /\ c.ok) =>
                /\ c.op = "add" =>
                      /\ toLowerCase(c.address) \in monitored_addresses'
                      /\ toLowerCase(c.address) \in monitoredAddresses'
                /\ c.op = "remove" =>
                      /\ toLowerCase(c.address) \notin monitored_addresses'
                      /\ toLowerCase(c.address) \notin monitoredAddresses']_vars

\* The database runs the statement of call c in this step, without error.
Runs(c) ==
    /\ c \in calls
    /\ c.phase = "sent"
    /\ \E rows \in SUBSET monitored_addresses :
          calls' = (calls \ {c}) \cup {Call(c.op, c.address, "done", TRUE, rows)}

\* C16 as claimed: no step removes a record from table monitored_addresses.
C16_NeverRemoved ==
    [][monitored_addresses \subseteq monitored_addresses']_vars

\* C16 as amended: a record leaves table monitored_addresses only in the
\* step that runs the DELETE of a removeMonitoredAddress(a) call, and it is
\* the record of the lower-cased a; after that DELETE the table has no such
\* record.  No other step (add, load, restart, the feed callback) removes one.
C16_RemovedOnlyByUnwatch ==
    [][/\ \A a \in monitored_addresses \ monitored_addresses' :
            \E c \in calls :
                /\ Runs(c)
                /\ c.op = "remove"
                /\ toLowerCase(c.address) = a
                /\ monitored_addresses' = monitored_addresses \ {a}
       /\ \A c \in calls :
            (Runs(c) /\ c.op = "remove") =>
                toLowerCase(c.address) \notin monitored_addresses']_vars

\* The DELETE of a removeMonitoredAddress call has run on an address that was
\* added before: the Set still has it, the table does not.
C16_Witness ==
    \E c \in calls :
        /\ c.op = "remove"
        /\ c.phase = "done"
        /\ c.ok
        /\ toLowerCase(c.address) \in monitoredAddresses
        /\ toLowerCase(c.address) \notin monitored_addresses

\* C17: when loadMonitoredAddresses, called at the start of the process,
\* returns without a store error, the Set is exactly the set of the addresses
\* in table monitored_addresses.
C17_LoadResyncs ==
    [][\A c \in calls :
          (Returns(c) /\ c.op = "load" /\ c.ok) =>
              monitoredAddresses' = monitored_addresses']_vars

\* The statuses of a duel that section 3 of the specification lists.
DuelStatuses ==
    {"pending_challenge", "pending_acceptance", "active", "awaiting_result",
     "completed_unseen", "completed", "disputed", "cancelled", "expired"}

\* The cut-offs of a cleanup run that is later than every duel so far.
CutOffs == {now, now + 1}

\* Every recorded duel has a status of set S, the rows a cleanup run selects
\* (and deletes) have a status of S, and what a confirm-result call selects
\* and leaves has a status of S.
StatusesWithin(S) ==
    /\ \A d \in duels : d.status \in S
    /\ \A fiveMinutesAgo \in CutOffs :
          \A d \in duels \ cleanupExpiredDuels(duels, fiveMinutesAgo) : d.status \in S
    /\ \A u \in Users, duelId \in DuelIds :
          LET r == confirmResult(duels, duelId, authenticateToken(u), FALSE)
          IN  /\ \A d \in r.duels : d.status \in S
              /\ \A d \in duels \ r.duels : d.status \in S

CarriesTestKey(req) == Truthy(ADMIN_TEST_KEY) /\ req.testKey = ADMIN_TEST_KEY

\* The request carries no token at all.
CarriesNoToken(req) == req.authorization.form \in {"missing", "scheme_only"}

\* The request carries a token that verifies.
CarriesValidToken(req) == req.authorization.form = "bearer" /\ req.authorization.valid

\* The request carries a valid token of an existing user whose role is admin.
CarriesAdminToken(req) ==
    /\ CarriesValidToken(req)
    /\ req.authorization.id \in Users
    /\ role[req.authorization.id] = "admin"

\* C19: for every request to a route behind authenticateToken and isAdmin,
\* the handler runs only if the request carries the configured admin test
\* key or a valid token of an existing admin; it does run in these cases
\* unless the users query fails; in every other case it does not run and the
\* answer is 401 without a token, 403 for a token that does not verify or a
\* user who is not an admin, 404 for a valid token of no existing user (403
\* when the users query fails).
C19_AdminOnly ==
    \A req \in AuthRequests, dbError \in BOOLEAN :
        LET r == adminRoute(req, ADMIN_TEST_KEY, role, dbError)
        IN  /\ r.ran => (CarriesTestKey(req) \/ CarriesAdminToken(req))
            /\ (CarriesTestKey(req) \/ (CarriesAdminToken(req) /\ ~dbError)) => r.ran
            /\ ~(CarriesTestKey(req) \/ CarriesAdminToken(req)) =>
                  /\ ~r.ran
                  /\ r.code =
                        IF CarriesNoToken(req) THEN "401"
                        ELSE IF ~CarriesValidToken(req) \/ dbError THEN "403"
                        ELSE IF req.authorization.id \notin Users THEN "404"
                        ELSE "403"

\* With no test key configured, an admin's token has run a handler, and the
\* same token would now be refused (the admin was demoted since).
C19_Witness ==
    /\ ADMIN_TEST_KEY = NoValue
    /\ authReply.ran
    /\ authReply.code = "200"
    /\ CarriesValidToken(authReply.request)
    /\ ~adminRoute(authReply.request, ADMIN_TEST_KEY, role, FALSE).ran
    /\ adminRoute(authReply.request, ADMIN_TEST_KEY, role, FALSE).code = "403"

\* C20: GET /bots reports exactly the regions North America, Europe and
\* Oceania, each online or offline, and a region is online if and only if the
\* running process accepted a heartbeat for it less than 45 seconds ago:
\* a region with no heartbeat, or whose last one is 45 seconds old or more,
\* is offline.
C20_OnlineWithin45s ==
    LET reply == getBots(botStatus, DateNow)
    IN  /\ DOMAIN reply = {"North America", "Europe", "Oceania"}
        /\ \A region \in DOMAIN reply :
              /\ reply[region] \in {"online", "offline"}
              /\ reply[region] = "online" <=>
                    \E h \in heartbeats :
                        /\ h.region = region
                        /\ DateNow - h.at < 45 * 1000

\* GET /bots has just answered: one region is online, one is offline with
\* its last heartbeat exactly 45 seconds old, one never sent a heartbeat.
C20_Witness ==
    /\ botsReply = getBots(botStatus, DateNow)
    /\ \E r1 \in Regions, r2 \in Regions, r3 \in Regions :
          /\ botsReply[r1] = "online"
          /\ botsReply[r2] = "offline"
          /\ botStatus[r2] = DateNow - 45 * 1000
          /\ botsReply[r3] = "offline"
          /\ botStatus[r3] = Undefined

\* C21: a heartbeat request changes the bot status Map only if BOT_API_KEY is
\* configured, the x-api-key header equals it and the region is one of
\* Oceania, Europe, North America; an accepted heartbeat sets that region's
\* timestamp and no other; a request is answered 500 when the key is not
\* configured, else 401 when the header is missing or wrong, else 400 when
\* the region is invalid, and each of these leaves the Map as it was.
C21_HeartbeatFrame ==
    \A req \in HeartbeatRequests :
        LET r == heartbeat(botStatus, req, BOT_API_KEY, DateNow)
            configured == BOT_API_KEY \notin {NoValue, ""}
            keyMatches == req.apiKey \notin {NoValue, ""} /\ req.apiKey = BOT_API_KEY
            regionOk == req.region \in {"Oceania", "Europe", "North America"}
        IN  /\ r.botStatus # botStatus => configured /\ keyMatches /\ regionOk
            /\ r.code = "200" <=> configured /\ keyMatches /\ regionOk
            /\ r.code = "200" =>
                   /\ r.botStatus[req.region] = DateNow
                   /\ \A region \in Regions \ {req.region} :
                          r.botStatus[region] = botStatus[region]
            /\ r.code = "500" <=> ~configured
            /\ r.code = "401" <=> configured /\ ~keyMatches
            /\ r.code = "400" <=> configured /\ keyMatches /\ ~regionOk
            /\ r.code \in {"500", "401", "400"} => r.botStatus = botStatus
            /\ r.code \in {"200", "500", "401", "400"}

\* A heartbeat was accepted for one region at an earlier instant and another
\* region has none; in this state one request would be accepted and change
\* the first region's timestamp only, and others would be answered 401 (wrong
\* key, missing key) and 400.
C21_Witness ==
    /\ Truthy(BOT_API_KEY)
    /\ \E h \in heartbeats, other \in Regions :
          /\ botStatus[h.region] = h.at
          /\ h.at < DateNow
          /\ botStatus[other] = Undefined
          /\ \E req \in HeartbeatRequests :
                /\ req.region = h.region
                /\ heartbeat(botStatus, req, BOT_API_KEY, DateNow).code = "200"
                /\ heartbeat(botStatus, req, BOT_API_KEY, DateNow).botStatus # botStatus
    /\ \E req \in HeartbeatRequests :
          /\ req.apiKey = NoValue
          /\ heartbeat(botStatus, req, BOT_API_KEY, DateNow).code = "401"
    /\ \E req \in HeartbeatRequests :
          /\ Truthy(req.apiKey) /\ req.apiKey # BOT_API_KEY
          /\ heartbeat(botStatus, req, BOT_API_KEY, DateNow).code = "401"
    /\ \E req \in HeartbeatRequests :
          /\ req.apiKey = BOT_API_KEY
          /\ heartbeat(botStatus, req, BOT_API_KEY, DateNow).code = "400"

\* The user is neither player of the duel with this id; so is every user when
\* no duel has the id.
NotParticipant(u, duelId) ==
    \A d \in duels : d.id = duelId => u \notin {d.player1_id, d.player2_id}

\* C22: a confirm-result call by an authenticated user who is neither player
\* of the identified duel, or for an id no duel has, is answered 403 whenever
\* its query completes, and whatever it answers it leaves every duel, the
\* identified one included, with the status it had.
C22_NonParticipantForbidden ==
    [][Confirmed /\ NotParticipant(response'.by, response'.duelId) =>
          /\ response'.code \in {"403", "500"}
          /\ confirmResult(duels, response'.duelId,
                           authenticateToken(response'.by), FALSE).code = "403"
          /\ duels' = duels]_vars

\* A user who is neither player of a completed_unseen duel was answered 403
\* and the duel is still completed_unseen; a call for an id that no duel has
\* is answered 403 as well.
C22_Witness ==
    /\ response.code = "403"
    /\ \E d \in duels :
          /\ d.id = response.duelId
          /\ response.by \notin {d.player1_id, d.player2_id}
          /\ d.status = "completed_unseen"
    /\ \E duelId \in DuelIds, u \in Users :
          /\ \A d \in duels : d.id # duelId
          /\ confirmResult(duels, duelId, authenticateToken(u), FALSE).code = "403"

\* C23: whenever no call of addMonitoredAddress or removeMonitoredAddress is
\* waiting, whatever calls ran before and however their steps interleaved,
\* an address is in the Set if and only if it is in table
\* monitored_addresses.
C23_QuiescentConsistent ==
    calls = {} =>
        \A a \in Addresses :
            toLowerCase(a) \in monitoredAddresses <=>
                toLowerCase(a) \in monitored_addresses

\* db.query of call c throws in this step.
Throws(c) ==
    /\ c \in calls
    /\ c.phase = "sent"
    /\ calls' = (calls \ {c}) \cup {Call(c.op, c.address, "done", FALSE, {})}

\* C24: when db.query of an addMonitoredAddress, removeMonitoredAddress or
\* loadMonitoredAddresses call throws, neither that step nor the step in
\* which the call resumes and returns changes the Set, the table is as it
\* was, and the call's promise is fulfilled, not rejected.
C24_StoreFailureContained ==
    [][\A c \in calls :
          /\ Throws(c) =>
                /\ monitoredAddresses' = monitoredAddresses
                /\ monitored_addresses' = monitored_addresses
          /\ (Returns(c) /\ ~c.ok) =>
                /\ monitoredAddresses' = monitoredAddresses
                /\ monitored_addresses' = monitored_addresses
                /\ settles(c) = "fulfilled"]_vars

\* After a restart the table has an address and the new Set is empty; the
\* SELECT of loadMonitoredAddresses and the INSERT of an addMonitoredAddress
\* call have both thrown, and either call, had it gone on, would have put an
\* address into the Set.
C24_Witness ==
    /\ monitoredAddresses = {}
    /\ monitored_addresses # {}
    /\ \E c \in calls :
          /\ c.op = "load"
          /\ c.phase = "done"
          /\ ~c.ok
    /\ \E c \in calls :
          /\ c.op = "add"
          /\ c.phase = "done"
          /\ ~c.ok
          /\ toLowerCase(c.address) \notin monitoredAddresses

\* C25: a run of the cleanup job affects a duel only if its status is
\* 'pending' and its created_at is more than five minutes before the run;
\* every other duel, a younger one or one in any other status (active,
\* completed_unseen, completed, disputed, ...), is recorded after the run
\* exactly as before, no duel is added, and every account balance, the
\* history and the payout requests are unchanged.
C25_CleanupFrame ==
    [][CleanedUp =>
          /\ \A d \in duels :
                d \notin duels' =>
                    /\ d.status = "pending"
                    /\ now - d.created_at > FIVE_MINUTES
          /\ \A d \in duels :
                (d.status # "pending" \/ now - d.created_at <= FIVE_MINUTES) =>
                    /\ d \in duels'
                    /\ \A e \in duels' : e.id = d.id => e = d
          /\ \A e \in duels' : e \in duels
          /\ balance' = balance
          /\ transactions' = transactions
          /\ payouts' = payouts]_vars

\* A run has deleted a duel and has left a pending duel whose age is exactly
\* the window, with money on an account.
C25_Witness ==
    /\ cleanupRuns >= 1
    /\ \E u \in Users : balance[u] > 0
    /\ \E id \in 1..(nextDuelId - 1) : \A d \in duels : d.id # id
    /\ \E d \in duels :
          /\ d.status = "pending"
          /\ now - d.created_at = FIVE_MINUTES
====
